---- MODULE Spec2Model ----
(***************************************************************************)
(* A model of the text expansion manager (src/App.tsx): the React state of *)
(* the App component, the values its render derives from that state        *)
(* (filteredData, totalPages, paginatedData), the page-reset effect, the   *)
(* toast and copied-marker timers, the clipboard promise and the CSV       *)
(* export.                                                                 *)
(*                                                                         *)
(* Strings are sequences of one-character strings, so that toLowerCase,    *)
(* includes and replace are computed character by character.               *)
(***************************************************************************)
EXTENDS Integers, Sequences, FiniteSets, TLC

\* ------------------------------------------------------------- bounds
\* Longest catalog (EXPANSIONS_DATA) the query specification starts from.
MaxCatalog == 3
\* Largest page size; the program runs with itemsPerPage = 100 (App.tsx:38),
\* the model with every size in 1..MaxPageSize.
MaxPageSize == 2

\* ------------------------------------------------------------ strings
\* String.prototype.toLowerCase on one character of the model's alphabet.
LowerChar(c) ==
  CASE c = "A" -> "a"
    [] c = "B" -> "b"
    [] OTHER -> c

\* String.prototype.toLowerCase.
toLowerCase(str) == [i \in 1..Len(str) |-> LowerChar(str[i])]

\* String.prototype.includes: needle occurs in hay at some offset.
includes(hay, needle) ==
  \E off \in 0..(Len(hay) - Len(needle)) :
    SubSeq(hay, off + 1, off + Len(needle)) = needle

\* ------------------------------------------------------------ catalog
\* The string literals 'all', 'spanish' and 'english' the section tag of a
\* record (ShortcutData.s) is compared with.
ALL == <<"a", "l", "l">>
SPANISH == <<"s", "p", "a", "n", "i", "s", "h">>
ENGLISH == <<"e", "n", "g", "l", "i", "s", "h">>

\* SectionFilter (types.ts:7).
SectionFilter == {"all", "universal", "spanish", "english"}

\* The records the catalogs of the query specification are made of:
\* keywords differing only by case, a duplicate keyword, expansions that
\* match a search where the keyword does not, and every section.
RecordPool ==
  { [k |-> <<"a">>,      e |-> <<"B", "a">>, s |-> ALL],
    [k |-> <<"A">>,      e |-> <<"b">>,      s |-> SPANISH],
    [k |-> <<"a">>,      e |-> <<"a", "b">>, s |-> ENGLISH],
    [k |-> <<"b">>,      e |-> <<"A", "B">>, s |-> ALL],
    [k |-> <<"c", "a">>, e |-> <<"c">>,      s |-> SPANISH],
    [k |-> <<"B", "c">>, e |-> <<"a">>,      s |-> ENGLISH] }

\* The texts the search box is set to.
SearchTerms ==
  { <<>>, <<"a">>, <<"B">>, <<"A", "b">>, <<"b", "A">>, <<"c">>, <<"d">> }

\* All sequences over S of length lo..hi.
SeqsOf(S, lo, hi) == UNION { [1..n -> S] : n \in lo..hi }

\* ------------------------------------------------------- query engine
\* filteredData with the text step looking at the keyword alone.
filterData_keywordOnly(data, tab, term) ==
  LET byTab ==
        IF tab = "universal" THEN SelectSeq(data, LAMBDA i : i.s = ALL)
        ELSE IF tab = "spanish" THEN SelectSeq(data, LAMBDA i : i.s = SPANISH)
        ELSE IF tab = "english" THEN SelectSeq(data, LAMBDA i : i.s = ENGLISH)
        ELSE data
      lower == toLowerCase(term)
  IN  IF term # <<>>
      THEN SelectSeq(byTab, LAMBDA i : includes(toLowerCase(i.k), lower))
      ELSE byTab

\* The filteredData memo of App: the tab step, then the text step.
filterData(data, tab, term) ==
  LET byTab ==
        IF tab = "universal" THEN SelectSeq(data, LAMBDA i : i.s = ALL)
        ELSE IF tab = "spanish" THEN SelectSeq(data, LAMBDA i : i.s = SPANISH)
        ELSE IF tab = "english" THEN SelectSeq(data, LAMBDA i : i.s = ENGLISH)
        ELSE data
      lower == toLowerCase(term)
  IN  IF term # <<>>
      THEN SelectSeq(byTab, LAMBDA i : includes(toLowerCase(i.k), lower)
                                       \/ includes(toLowerCase(i.e), lower))
      ELSE byTab

\* ---------------------------------------------------------- paginator
\* Math.ceil(len / perPage) for len >= 0 and perPage >= 1.
totalPagesOf(len, perPage) ==
  IF len % perPage = 0 THEN len \div perPage ELSE (len \div perPage) + 1

\* Array.prototype.slice(start, end): negative indices count from the end,
\* both ends clip to the length, an empty range gives the empty array.
slice(arr, start, end) ==
  LET len  == Len(arr)
      from == IF start < 0 THEN (IF len + start < 0 THEN 0 ELSE len + start)
              ELSE (IF start > len THEN len ELSE start)
      to   == IF end < 0 THEN (IF len + end < 0 THEN 0 ELSE len + end)
              ELSE (IF end > len THEN len ELSE end)
  IN  IF to <= from THEN <<>> ELSE SubSeq(arr, from + 1, to)

\* The page slice starting one page too far.
pageSlice_offByOne(filtered, page, perPage) ==
  LET start == page * perPage
  IN  slice(filtered, start, start + perPage)

\* The paginatedData memo of App.
pageSlice(filtered, page, perPage) ==
  LET start == (page - 1) * perPage
  IN  slice(filtered, start, start + perPage)

\* ------------------------------------------------------------- timing
\* The delay of the setTimeout that clears the toast, in ms.
ToastMs == 3000
\* The delay of the setTimeout that clears the copied marker, in ms.
CopiedMs == 1500
\* The step by which the clock of the model advances, in ms.
Tick == 750
\* The clock stops advancing here.
MaxTime == 3000
\* The copy actions (row copies and Copy Visible) of one behaviour.
MaxCopies == 2
\* CSV is not clicked while this many timeouts are pending.
MaxTimers == 2
\* Longest catalog the export specification starts from.
MaxCsvCatalog == 2

\* null, for the toast and for copiedId.
null == <<>>

\* The decimal digits of a natural number, as a string.
RECURSIVE Digits(_)
Digits(n) ==
  IF n < 10 THEN << ToString(n) >>
  ELSE Digits(n \div 10) \o << ToString(n % 10) >>

\* uniqueId of a table row: `${item.k}-${idx}`, idx the index in the page.
uniqueId(item, idx) == item.k \o << "-" >> \o Digits(idx)

\* Array.prototype.join over the expansions of the records.
RECURSIVE joinExpansions(_, _)
joinExpansions(data, sep) ==
  IF data = <<>> THEN <<>>
  ELSE IF Len(data) = 1 THEN data[1].e
  ELSE data[1].e \o sep \o joinExpansions(Tail(data), sep)

\* showToast on the toast and timers in ui, at time t: the toast is set and
\* a timeout that clears whatever toast is then shown is started; no earlier
\* timeout is cancelled.
showToast(ui, message, type, t) ==
  [ui EXCEPT !.toast = [id |-> t, message |-> message, type |-> type],
             !.timers = Append(@, [callback |-> "setToast(null)",
                                    due |-> t + ToastMs])]

\* The then-callback of copyToClipboard on ui at time t: the toast, and with
\* an id the copied marker and the timeout that clears it.
onCopied(ui, id, t) ==
  LET shown == showToast(ui, "Copied to clipboard!", "success", t)
  IN  IF id # null
      THEN [shown EXCEPT !.copiedId = id,
                         !.timers = Append(@, [callback |-> "setCopiedId(null)",
                                                due |-> t + CopiedMs])]
      ELSE shown

\* The catch-callback of copyToClipboard.
onCopyFailed(ui, t) == showToast(ui, "Failed to copy", "error", t)

\* ------------------------------------------------------------ exporter
\* The header line of the CSV: 'Shortcut,Expansion,Language\n'.
CsvHeader ==
  << "S", "h", "o", "r", "t", "c", "u", "t", ",",
     "E", "x", "p", "a", "n", "s", "i", "o", "n", ",",
     "L", "a", "n", "g", "u", "a", "g", "e", "\n" >>

\* str.replace(/from/g, to) for a one-character pattern.
RECURSIVE replaceAll(_, _, _)
replaceAll(str, from, to) ==
  IF str = <<>> THEN <<>>
  ELSE (IF Head(str) = from THEN to ELSE << Head(str) >>)
       \o replaceAll(Tail(str), from, to)

\* One line of the CSV, as the forEach body of exportCSV appends it.
csvLine(e) ==
  LET k   == replaceAll(e.k, "\"", << "\"", "\"" >>)
      exp == replaceAll(replaceAll(e.e, "\"", << "\"", "\"" >>), "\n", << " " >>)
  IN  << "\"" >> \o k \o << "\"", ",", "\"" >> \o exp
      \o << "\"", ",", "\"" >> \o e.s \o << "\"", "\n" >>

\* The csv text exportCSV builds from the filtered records.
RECURSIVE exportCSVText(_)
exportCSVText(data) ==
  IF data = <<>> THEN CsvHeader
  ELSE exportCSVText(SubSeq(data, 1, Len(data) - 1)) \o csvLine(data[Len(data)])

\* -------------------------------------------------------------- state
VARIABLES
  EXPANSIONS_DATA,  \* the catalog, fixed after start
  searchTerm,       \* useState('')
  activeTab,        \* useState('all')
  currentPage,      \* useState(1)
  itemsPerPage,     \* useState(100), never set again
  filteredData,     \* the filteredData memo of the last render
  paginatedData,    \* the paginatedData memo of the last render
  effectPending,    \* the reset effect of the last render has not run yet
  toast,            \* useState<ToastMessage | null>(null)
  copiedId,         \* useState<string | null>(null)
  timers,           \* the pending setTimeout callbacks, in creation order
  now,              \* Date.now(), in ms since the start
  clipboardApi,     \* navigator.clipboard is defined in this environment
  writes,           \* the writeText promises not settled yet
  copyLog,          \* history: per copy action, its outcome and what it raised
  copiedItem,       \* history: the record whose copy set copiedId
  copiedAt,         \* history: when copiedId was last set
  exported          \* the last CSV download: its text and the records it is of

queryVars ==
  << EXPANSIONS_DATA, searchTerm, activeTab, currentPage, itemsPerPage,
     filteredData, paginatedData, effectPending >>

uiVars == << toast, copiedId, timers >>

copyVars == << clipboardApi, writes, copyLog, copiedItem, copiedAt >>

vars == << queryVars, uiVars, now, copyVars, exported >>

\* totalPages of the last render.
totalPages == totalPagesOf(Len(filteredData), itemsPerPage)

\* The toast, the copied marker and the timers, as the callbacks update them.
ui == [toast |-> toast, copiedId |-> copiedId, timers |-> timers]

\* The state after the first render and its effects.
InitWith(catalogs, pageSizes, environments) ==
  /\ EXPANSIONS_DATA \in catalogs
  /\ itemsPerPage \in pageSizes
  /\ clipboardApi \in environments
  /\ searchTerm = <<>>
  /\ activeTab = "all"
  /\ currentPage = 1
  /\ filteredData = filterData(EXPANSIONS_DATA, "all", <<>>)
  /\ paginatedData = pageSlice(filteredData, 1, itemsPerPage)
  /\ effectPending = FALSE
  /\ toast = null
  /\ copiedId = null
  /\ timers = <<>>
  /\ now = 0
  /\ writes = <<>>
  /\ copyLog = <<>>
  /\ copiedItem = null
  /\ copiedAt = 0
  /\ exported = null

\* ------------------------------------------------- query and paging
\* onChange of the search box, or its clear button: setSearchTerm, then the
\* render it causes. The render recomputes filteredData, and paginatedData
\* from the currentPage of that render; the reset effect runs after it.
SetSearchTerm(term) ==
  /\ ~effectPending
  /\ term # searchTerm
  /\ searchTerm' = term
  /\ filteredData' = filterData(EXPANSIONS_DATA, activeTab, term)
  /\ paginatedData' = pageSlice(filteredData', currentPage, itemsPerPage)
  /\ effectPending' = TRUE
  /\ UNCHANGED << EXPANSIONS_DATA, activeTab, currentPage, itemsPerPage >>
  /\ UNCHANGED << uiVars, now, copyVars, exported >>

\* onClick of a tab: setActiveTab, then the render it causes.
SetActiveTab(tab) ==
  /\ ~effectPending
  /\ tab # activeTab
  /\ activeTab' = tab
  /\ filteredData' = filterData(EXPANSIONS_DATA, tab, searchTerm)
  /\ paginatedData' = pageSlice(filteredData', currentPage, itemsPerPage)
  /\ effectPending' = TRUE
  /\ UNCHANGED << EXPANSIONS_DATA, searchTerm, currentPage, itemsPerPage >>
  /\ UNCHANGED << uiVars, now, copyVars, exported >>

\* The effect on [activeTab, searchTerm]: setCurrentPage(1), then the render
\* that follows.
ResetPageEffect ==
  /\ effectPending
  /\ currentPage' = 1
  /\ paginatedData' = pageSlice(filteredData, 1, itemsPerPage)
  /\ effectPending' = FALSE
  /\ UNCHANGED << EXPANSIONS_DATA, searchTerm, activeTab, itemsPerPage,
                  filteredData >>
  /\ UNCHANGED << uiVars, now, copyVars, exported >>

\* The pagination controls are rendered.
ControlsShown == Len(filteredData) > itemsPerPage

\* onClick of the previous-page button (disabled on page 1).
PrevPage ==
  /\ ~effectPending
  /\ ControlsShown
  /\ currentPage # 1
  /\ currentPage' = (IF currentPage - 1 < 1 THEN 1 ELSE currentPage - 1)
  /\ paginatedData' = pageSlice(filteredData, currentPage', itemsPerPage)
  /\ UNCHANGED << EXPANSIONS_DATA, searchTerm, activeTab, itemsPerPage,
                  filteredData, effectPending >>
  /\ UNCHANGED << uiVars, now, copyVars, exported >>

\* onClick of the next-page button (disabled on the last page).
NextPage ==
  /\ ~effectPending
  /\ ControlsShown
  /\ currentPage # totalPages
  /\ currentPage' =
       (IF currentPage + 1 > totalPages THEN totalPages ELSE currentPage + 1)
  /\ paginatedData' = pageSlice(filteredData, currentPage', itemsPerPage)
  /\ UNCHANGED << EXPANSIONS_DATA, searchTerm, activeTab, itemsPerPage,
                  filteredData, effectPending >>
  /\ UNCHANGED << uiVars, now, copyVars, exported >>

\* --------------------------------------------------- clock and timers
\* Time passes. A timeout that is due runs before the clock moves on, and
\* the reset effect of a render is flushed before anything else happens.
Advance ==
  /\ ~effectPending
  /\ now + Tick <= MaxTime
  /\ \A i \in DOMAIN timers : timers[i].due > now
  /\ now' = now + Tick
  /\ UNCHANGED << queryVars, uiVars, copyVars, exported >>

\* The timeout that is due first (the older one of two due together) runs:
\* setToast(null) or setCopiedId(null).
FireTimer ==
  \E i \in DOMAIN timers :
    /\ ~effectPending
    /\ timers[i].due <= now
    /\ \A j \in DOMAIN timers :
         \/ timers[j].due > timers[i].due
         \/ timers[j].due = timers[i].due /\ j >= i
    /\ timers' = SubSeq(timers, 1, i - 1) \o SubSeq(timers, i + 1, Len(timers))
    /\ IF timers[i].callback = "setToast(null)"
       THEN toast' = null /\ UNCHANGED copiedId
       ELSE copiedId' = null /\ UNCHANGED toast
    /\ UNCHANGED << queryVars, now, copyVars, exported >>

\* ----------------------------------------------------------- clipboard
\* A copy action entered in the history.
Logged(kind) ==
  [kind |-> kind, outcome |-> "pending", raised |-> {}, marked |-> FALSE]

\* onClick of row idx of the table (or of its button):
\* copyToClipboard(item.e, uniqueId). Without navigator.clipboard the call
\* throws a TypeError and the handler ends there.
CopyRow(idx) ==
  /\ ~effectPending
  /\ Len(copyLog) < MaxCopies
  /\ idx \in 0..(Len(paginatedData) - 1)
  /\ LET item == paginatedData[idx + 1]
     IN  IF clipboardApi
         THEN /\ writes' = Append(writes,
                    [text |-> item.e, id |-> uniqueId(item, idx), item |-> item,
                     log |-> Len(copyLog) + 1])
              /\ copyLog' = Append(copyLog, Logged("single"))
         ELSE /\ copyLog' = Append(copyLog,
                    [Logged("single") EXCEPT !.outcome = "threw"])
              /\ UNCHANGED writes
  /\ UNCHANGED << queryVars, uiVars, now, clipboardApi, copiedItem, copiedAt,
                  exported >>

\* onClick of Copy Visible: copyVisible.
CopyVisible ==
  /\ ~effectPending
  /\ Len(copyLog) < MaxCopies
  /\ IF Len(filteredData) = 0
     THEN LET after == showToast(ui, "Nothing to copy", "info", now)
          IN  /\ toast' = after.toast
              /\ timers' = after.timers
              /\ copyLog' = Append(copyLog,
                    [Logged("bulk") EXCEPT !.outcome = "nothing",
                                           !.raised = {"Nothing to copy"}])
              /\ UNCHANGED writes
     ELSE IF clipboardApi
     THEN LET message == "Copied " \o ToString(Len(filteredData)) \o " items!"
              after == showToast(ui, message, "success", now)
          IN  /\ writes' = Append(writes,
                    [text |-> joinExpansions(filteredData, << "\n" >>),
                     id |-> null, item |-> null, log |-> Len(copyLog) + 1])
              /\ toast' = after.toast
              /\ timers' = after.timers
              /\ copyLog' = Append(copyLog,
                    [Logged("bulk") EXCEPT !.raised = {"Copied N items!"}])
     ELSE /\ copyLog' = Append(copyLog,
                [Logged("bulk") EXCEPT !.outcome = "threw"])
          /\ UNCHANGED << toast, timers, writes >>
  /\ UNCHANGED << queryVars, copiedId, now, clipboardApi, copiedItem, copiedAt,
                  exported >>

\* The writeText promise of write i is fulfilled: the then-callback runs.
WriteResolves(i) ==
  /\ ~effectPending
  /\ i \in DOMAIN writes
  /\ LET w == writes[i]
         after == onCopied(ui, w.id, now)
     IN  /\ toast' = after.toast
         /\ copiedId' = after.copiedId
         /\ timers' = after.timers
         /\ copyLog' = [copyLog EXCEPT
              ![w.log].outcome = "resolved",
              ![w.log].raised = @ \cup {"Copied to clipboard!"},
              ![w.log].marked = (w.id # null)]
         /\ copiedItem' = (IF w.id # null THEN w.item ELSE copiedItem)
         /\ copiedAt' = (IF w.id # null THEN now ELSE copiedAt)
  /\ writes' = SubSeq(writes, 1, i - 1) \o SubSeq(writes, i + 1, Len(writes))
  /\ UNCHANGED << queryVars, now, clipboardApi, exported >>

\* The writeText promise of write i is rejected (permission denied): the
\* catch-callback runs.
WriteRejects(i) ==
  /\ ~effectPending
  /\ i \in DOMAIN writes
  /\ LET w == writes[i]
         after == onCopyFailed(ui, now)
     IN  /\ toast' = after.toast
         /\ timers' = after.timers
         /\ copyLog' = [copyLog EXCEPT
              ![w.log].outcome = "rejected",
              ![w.log].raised = @ \cup {"Failed to copy"}]
  /\ writes' = SubSeq(writes, 1, i - 1) \o SubSeq(writes, i + 1, Len(writes))
  /\ UNCHANGED << queryVars, copiedId, now, clipboardApi, copiedItem, copiedAt,
                  exported >>

\* onClick of CSV: exportCSV builds the text, hands it to the download link
\* and shows the toast.
ExportCSV ==
  /\ ~effectPending
  /\ Len(timers) < MaxTimers
  /\ LET after == showToast(ui, "CSV Exported Successfully", "success", now)
     IN  /\ toast' = after.toast
         /\ timers' = after.timers
  /\ exported' = [text |-> exportCSVText(filteredData), records |-> filteredData]
  /\ UNCHANGED << queryVars, copiedId, now, copyVars >>

\* ------------------------------------------------------ specifications
\* Searching, filtering and paging over every catalog of up to MaxCatalog
\* records of RecordPool.
InitQuery == InitWith(SeqsOf(RecordPool, 1, MaxCatalog), 1..MaxPageSize, {TRUE})

NextQuery ==
  \/ \E term \in SearchTerms : SetSearchTerm(term)
  \/ \E tab \in SectionFilter : SetActiveTab(tab)
  \/ ResetPageEffect
  \/ PrevPage
  \/ NextPage

SpecQuery == InitQuery /\ [][NextQuery]_vars

\* The catalog of the copy specification: two records share the keyword "a"
\* and differ in expansion and section.
CopyCatalog ==
  << [k |-> <<"a">>, e |-> <<"x">>,       s |-> ALL],
     [k |-> <<"b">>, e |-> <<"y", "a">>,  s |-> SPANISH],
     [k |-> <<"a">>, e |-> <<"z">>,       s |-> ENGLISH] >>

\* The texts the search box is set to in the copy specification.
CopySearchTerms == { <<>>, <<"a">>, <<"d">> }

\* Copying rows and the visible set, with and without navigator.clipboard,
\* while the user pages and filters and the timeouts run.
InitCopy == InitWith({CopyCatalog}, 1..MaxPageSize, BOOLEAN)

NextCopy ==
  \/ \E term \in CopySearchTerms : SetSearchTerm(term)
  \/ \E tab \in SectionFilter : SetActiveTab(tab)
  \/ ResetPageEffect
  \/ PrevPage
  \/ NextPage
  \/ Advance
  \/ FireTimer
  \/ \E idx \in 0..(MaxPageSize - 1) : CopyRow(idx)
  \/ CopyVisible
  \/ \E i \in 1..MaxCopies : WriteResolves(i)
  \/ \E i \in 1..MaxCopies : WriteRejects(i)

SpecCopy == InitCopy /\ [][NextCopy]_vars

\* The records of the export specification: double quotes, commas and
\* newlines in the fields.
CsvRecordPool ==
  { [k |-> <<"A", "1">>,  e |-> <<"H", ",", "\"", "W", "\"">>, s |-> ENGLISH],
    [k |-> <<"\"", "q">>, e |-> <<"x", "\n", "y">>,            s |-> SPANISH],
    [k |-> <<"b">>,       e |-> <<"\n", "\"">>,                s |-> <<"a", "\"", "b">>],
    [k |-> <<"c", ",">>,  e |-> <<"z">>,                       s |-> ALL] }

\* Exporting the filtered set of every catalog of up to MaxCsvCatalog records
\* of CsvRecordPool, the empty catalog included.
InitExport == InitWith(SeqsOf(CsvRecordPool, 0, MaxCsvCatalog), {MaxPageSize}, {TRUE})

NextExport ==
  \/ \E tab \in SectionFilter : SetActiveTab(tab)
  \/ ResetPageEffect
  \/ ExportCSV
  \/ Advance
  \/ FireTimer

SpecExport == InitExport /\ [][NextExport]_vars


\* ------------------------------------------------ claims on the query
\* Two characters are the same letter up to case.
SameLetter(c, d) ==
  \/ c = d
  \/ \E pair \in { {"a", "A"}, {"b", "B"} } : c \in pair /\ d \in pair

\* needle occurs in hay at some offset, letters compared up to case.
ContainsIgnoringCase(hay, needle) ==
  \E off \in 0..(Len(hay) - Len(needle)) :
    \A j \in 1..Len(needle) : SameLetter(hay[off + j], needle[j])

\* The text condition of the filter.
TextMatches(r, term) ==
  \/ term = <<>>
  \/ ContainsIgnoringCase(r.k, term)
  \/ ContainsIgnoringCase(r.e, term)

\* The j-th smallest element of a set of indices.
NthIndex(keep, j) ==
  CHOOSE i \in keep : Cardinality({ m \in keep : m < i }) = j - 1

\* out lists, in catalog order, exactly the records of data at the indices keep.
IsSubsequenceAt(out, data, keep) ==
  /\ Len(out) = Cardinality(keep)
  /\ \A j \in 1..Len(out) : out[j] = data[NthIndex(keep, j)]

\* The name of a filter, as a string.
TabText(tab) ==
  CASE tab = "all" -> ALL
    [] tab = "spanish" -> SPANISH
    [] tab = "english" -> ENGLISH
    [] tab = "universal" -> <<"u", "n", "i", "v", "e", "r", "s", "a", "l">>

\* The section tag the records of a tab carry: 'all' under the Universal tab.
SectionOfTab(tab) == IF tab = "universal" THEN ALL ELSE TabText(tab)

\* C1: after a change of activeTab or searchTerm, currentPage is 1 before the
\* page slice is next computed: the render that follows the change (the one
\* whose reset effect is still pending) has computed paginatedData from the
\* new filteredData, so currentPage must be 1 in it.
C1_ResetBeforeSlice == effectPending => currentPage = 1

\* C2: in every reachable state currentPage lies within [1, totalPages] of
\* the current filtered result, the empty result included.
C2_PageWithinBounds == currentPage \in 1..totalPages

\* C3 as stated: the filtered set is the order-preserving subsequence of the
\* catalog of the records whose category equals the filter (every record
\* when the filter is 'all') and that match the search text, up to case, in
\* keyword or expansion.
C3_FilterByEqualCategory ==
  IsSubsequenceAt(filteredData, EXPANSIONS_DATA,
    { i \in DOMAIN EXPANSIONS_DATA :
        /\ activeTab = "all" \/ EXPANSIONS_DATA[i].s = TabText(activeTab)
        /\ TextMatches(EXPANSIONS_DATA[i], searchTerm) })

\* C3 as amended: the same, the category of the 'universal' filter being the
\* section tag 'all'.
C3_FilterBySection ==
  IsSubsequenceAt(filteredData, EXPANSIONS_DATA,
    { i \in DOMAIN EXPANSIONS_DATA :
        /\ activeTab = "all" \/ EXPANSIONS_DATA[i].s = SectionOfTab(activeTab)
        /\ TextMatches(EXPANSIONS_DATA[i], searchTerm) })

\* A search in another case than the catalog's, under the Universal tab,
\* keeps a record for its expansion alone and drops others.
C3_Witness ==
  /\ activeTab = "universal"
  /\ searchTerm = <<"b", "A">>
  /\ filteredData # <<>>
  /\ Len(filteredData) < Len(EXPANSIONS_DATA)
  /\ \E j \in DOMAIN filteredData :
       /\ ~ContainsIgnoringCase(filteredData[j].k, searchTerm)
       /\ filteredData[j].e # searchTerm

\* The pages 1..n of the filtered set, one after the other.
RECURSIVE ConcatPages(_, _, _)
ConcatPages(filtered, perPage, n) ==
  IF n = 0 THEN <<>>
  ELSE ConcatPages(filtered, perPage, n - 1) \o pageSlice(filtered, n, perPage)

\* C4: the page slices of pages 1..totalPages, concatenated, are exactly the
\* filtered set: every record is on exactly one page, in order.
C4_PagesCoverFilteredSet ==
  ConcatPages(filteredData, itemsPerPage, totalPages) = filteredData

\* The last page is shown and is shorter than the page size (the 150 records
\* at 100 a page, scaled down).
C4_Witness ==
  /\ totalPages >= 2
  /\ currentPage = totalPages
  /\ Len(filteredData) % itemsPerPage # 0
  /\ Len(paginatedData) = Len(filteredData) % itemsPerPage
  /\ ~effectPending

\* ------------------------------------- claims on copying and the timers
\* C5: a Copy Visible of a non-empty filtered set whose clipboard write was
\* rejected has raised the error notification and has not raised the
\* success notification reporting the number of items copied.
C5_CountToastOnlyOnSuccess ==
  \A n \in DOMAIN copyLog :
    (copyLog[n].kind = "bulk" /\ copyLog[n].outcome = "rejected") =>
      /\ "Failed to copy" \in copyLog[n].raised
      /\ "Copied N items!" \notin copyLog[n].raised

\* C6: the toast shown is removed (set to null) no earlier than 3000 ms after
\* its own creation: never by the timeout of an earlier toast. A newer toast
\* may replace it at any time.
C6_ToastLivesItsTimeout ==
  [][(toast # null /\ toast' = null) => now >= toast.id + ToastMs]_vars

\* C7: the copied marker is cleared no earlier than 1500 ms after the copy
\* that set it: a later copy resets the timer, so the timeout of an earlier
\* marker never clears it.
C7_MarkerLivesItsTimeout ==
  [][(copiedId # null /\ copiedId' = null) => now >= copiedAt + CopiedMs]_vars

\* C9: no copy action ends in an exception thrown out of its handler, and
\* every failed clipboard write, rejected or unsupported, has raised the
\* error notification and has not set the copied marker.
C9_FailuresBecomeErrorToasts ==
  \A n \in DOMAIN copyLog :
    /\ copyLog[n].outcome # "threw"
    /\ copyLog[n].outcome \in {"rejected", "threw"} =>
         /\ "Failed to copy" \in copyLog[n].raised
         /\ ~copyLog[n].marked

\* C10: a displayed row is shown as copied (copiedId equals its uniqueId)
\* only if it holds the record that was copied.
C10_MarkerOnCopiedRecordOnly ==
  \A idx \in 0..(Len(paginatedData) - 1) :
    copiedId = uniqueId(paginatedData[idx + 1], idx) =>
      paginatedData[idx + 1] = copiedItem

\* ------------------------------------------------ claims on the export
\* The result of parsing a text that is not RFC 4180.
Malformed == << << << "malformed" >> >> >>

\* An RFC 4180 parser with "\n" as the line break: the rows of text, each a
\* sequence of fields, read from position i in the given mode ("start" of a
\* field, "plain" field, "quoted" field, quote "closed" or doubled).
RECURSIVE ParseFrom(_, _, _, _, _, _)
ParseFrom(text, i, mode, field, row, rows) ==
  IF i > Len(text)
  THEN IF mode = "quoted" THEN Malformed
       ELSE IF mode = "start" /\ row = <<>> THEN rows
       ELSE Append(rows, Append(row, field))
  ELSE LET c == text[i]
       IN  CASE mode = "quoted" /\ c = "\"" ->
                  ParseFrom(text, i + 1, "closed", field, row, rows)
             [] mode = "quoted" /\ c # "\"" ->
                  ParseFrom(text, i + 1, "quoted", Append(field, c), row, rows)
             [] mode = "closed" /\ c = "\"" ->
                  ParseFrom(text, i + 1, "quoted", Append(field, c), row, rows)
             [] mode = "start" /\ c = "\"" ->
                  ParseFrom(text, i + 1, "quoted", <<>>, row, rows)
             [] mode = "plain" /\ c = "\"" -> Malformed
             [] mode # "quoted" /\ c = "," ->
                  ParseFrom(text, i + 1, "start", <<>>, Append(row, field), rows)
             [] mode # "quoted" /\ c = "\n" ->
                  ParseFrom(text, i + 1, "start", <<>>, <<>>,
                            Append(rows, Append(row, field)))
             [] mode = "closed" /\ c \notin {"\"", ",", "\n"} -> Malformed
             [] OTHER ->
                  ParseFrom(text, i + 1, "plain", Append(field, c), row, rows)

ParseCSV(text) == ParseFrom(text, 1, "start", <<>>, <<>>, <<>>)

\* A field between double quotes, each double quote inside it doubled.
Quoted(f) ==
  LET at(j) == IF f[j] = "\"" THEN << "\"", "\"" >> ELSE << f[j] >>
      upTo[j \in 0..Len(f)] == IF j = 0 THEN <<>> ELSE upTo[j - 1] \o at(j)
  IN  << "\"" >> \o upTo[Len(f)] \o << "\"" >>

\* A field with every newline replaced by a space.
OnOneLine(f) == [j \in 1..Len(f) |-> IF f[j] = "\n" THEN " " ELSE f[j]]

\* The fields of the header line.
HeaderFields ==
  << << "S", "h", "o", "r", "t", "c", "u", "t" >>,
     << "E", "x", "p", "a", "n", "s", "i", "o", "n" >>,
     << "L", "a", "n", "g", "u", "a", "g", "e" >> >>

\* The line of a record as the claim describes it.
QuotedLine(r) ==
  Quoted(r.k) \o << "," >> \o Quoted(OnOneLine(r.e)) \o << "," >> \o Quoted(r.s)
  \o << "\n" >>

\* The lines of records 1..n, one after the other.
RECURSIVE QuotedLines(_, _)
QuotedLines(records, n) ==
  IF n = 0 THEN <<>>
  ELSE QuotedLines(records, n - 1) \o QuotedLine(records[n])

\* C8: the exported text is the header line followed by one line per record,
\* each of keyword, expansion and category between double quotes with its
\* double quotes doubled and the newlines of the expansion replaced by
\* spaces; the text parses as RFC 4180 to the header and, per record, its
\* keyword, its expansion on one line and its category.
C8_CsvQuotesEveryField ==
  exported # null =>
    /\ exported.text =
         CsvHeader \o QuotedLines(exported.records, Len(exported.records))
    /\ ParseCSV(exported.text) =
         << HeaderFields >> \o
         [n \in 1..Len(exported.records) |->
            << exported.records[n].k, OnOneLine(exported.records[n].e),
               exported.records[n].s >>]

====
